---- MODULE Spec2Model ----
(***************************************************************************)
(* One-dimensional bin packing (sulami/bin-packing).                       *)
(*                                                                         *)
(* The model follows one packing call from its arguments to its return:    *)
(*   online::pack_bins / online::pack_existing_bins with FirstFit,         *)
(*   NextFit or BestFit, and offline pack_all with FirstFitDecreasing,     *)
(*   BestFitDecreasing and ModifiedFirstFitDecreasing (src/src/offline.rs, *)
(*   and the older ModifiedFirstFitDecreasing of src/src/lib.rs, whose     *)
(*   large pass differs).                                                  *)
(*                                                                         *)
(* Bins are the BinImpl of the tests (a `used` counter, capacity 10); the  *)
(* field `packed` is a history variable listing the items packed into the  *)
(* bin during the call.  Items are the ItemImpl of the tests.  Bin indices *)
(* are 0-based as in the source; Option<usize> is <<>> (None) or <<i>>     *)
(* (Some(i)).                                                              *)
(***************************************************************************)
EXTENDS Integers, Sequences, FiniteSets, Bags, TLC

\* ---------------------------------------------------------------- bounds
MaxItems == 3
MaxInitBins == 2
MaxOfflineItems == 4

\* BinImpl::capacity() of the test fixtures.
Capacity == 10

\* ------------------------------------------------------------ Bin, Item
ItemImpl_new(s) == [size |-> s]

size(item) == item.size

BinDefault == [used |-> 0, packed |-> <<>>]

capacity == Capacity

available(bin) == capacity - bin.used

pack(bin, item) == [used |-> bin.used + size(item), packed |-> Append(bin.packed, item)]

\* Option<usize>
None == <<>>

Some(i) == <<i>>

\* bins[i] with the source's 0-based index
At(bins, i) == bins[i + 1]

\* bins[i].pack(item)
PackAt(bins, i, item) == [bins EXCEPT ![i + 1] = pack(bins[i + 1], item)]

\* A new bin is pushed and the item is not packed into it.
PushPack_forgets(bins, item) == Append(bins, BinDefault)

\* bins.push(B::default()); bins.last_mut().unwrap().pack(item)
PushPack(bins, item) == Append(bins, pack(BinDefault, item))

\* ------------------------------------------------------ online strategies
RECURSIVE FirstFitFrom(_, _, _)
FirstFitFrom(bins, item, i) ==
    IF i >= Len(bins) THEN None
    ELSE IF size(item) <= available(At(bins, i)) THEN Some(i)
    ELSE FirstFitFrom(bins, item, i + 1)

\* FirstFit with `<` for `<=`: a bin the item fills exactly is passed over.
RECURSIVE FirstFitFrom_strict(_, _, _)
FirstFitFrom_strict(bins, item, i) ==
    IF i >= Len(bins) THEN None
    ELSE IF size(item) < available(At(bins, i)) THEN Some(i)
    ELSE FirstFitFrom_strict(bins, item, i + 1)

FirstFit_next_idx_strict(bins, item) == FirstFitFrom_strict(bins, item, 0)

FirstFit_next_idx(bins, item) == FirstFitFrom(bins, item, 0)

\* NextFit without the test of the last bin's room.
NextFit_next_idx_unchecked(bins, item) ==
    IF Len(bins) > 0 THEN Some(Len(bins) - 1) ELSE None

\* NextFit searching the bins from the first one.
NextFit_next_idx_searching(bins, item) == FirstFitFrom(bins, item, 0)

NextFit_next_idx(bins, item) ==
    IF Len(bins) > 0 /\ size(item) <= available(bins[Len(bins)])
    THEN Some(Len(bins) - 1)
    ELSE None

RECURSIVE BestFitFrom(_, _, _, _)
BestFitFrom(bins, item, i, best_fit) ==
    IF i >= Len(bins) THEN best_fit
    ELSE IF size(item) <= available(At(bins, i))
    THEN IF best_fit = None
         THEN BestFitFrom(bins, item, i + 1, Some(i))
         ELSE IF available(At(bins, i)) < available(At(bins, best_fit[1]))
              THEN BestFitFrom(bins, item, i + 1, Some(i))
              ELSE BestFitFrom(bins, item, i + 1, best_fit)
    ELSE BestFitFrom(bins, item, i + 1, best_fit)

\* BestFit with `<=` for `<` against the current best: the last of the bins tied
\* on the smallest available wins.
RECURSIVE BestFitFrom_lastTie(_, _, _, _)
BestFitFrom_lastTie(bins, item, i, best_fit) ==
    IF i >= Len(bins) THEN best_fit
    ELSE IF size(item) <= available(At(bins, i))
    THEN IF best_fit = None
         THEN BestFitFrom_lastTie(bins, item, i + 1, Some(i))
         ELSE IF available(At(bins, i)) <= available(At(bins, best_fit[1]))
              THEN BestFitFrom_lastTie(bins, item, i + 1, Some(i))
              ELSE BestFitFrom_lastTie(bins, item, i + 1, best_fit)
    ELSE BestFitFrom_lastTie(bins, item, i + 1, best_fit)

BestFit_next_idx_lastTie(bins, item) == BestFitFrom_lastTie(bins, item, 0, None)

BestFit_next_idx(bins, item) == BestFitFrom(bins, item, 0, None)

\* Every strategy answered by NextFit: only the last bin is looked at.
next_idx_lastOnly(strat, bins, item) == NextFit_next_idx(bins, item)

next_idx(strat, bins, item) ==
    CASE strat = "FirstFit" -> FirstFit_next_idx(bins, item)
      [] strat = "NextFit" -> NextFit_next_idx(bins, item)
      [] strat = "BestFit" -> BestFit_next_idx(bins, item)

\* One iteration of the loop of pack_bins (and of the pop loop of pack_all).
PackOrPush(strat, bins, item) ==
    LET r == next_idx(strat, bins, item)
    IN  IF r # None THEN PackAt(bins, r[1], item) ELSE PushPack(bins, item)

\* pack_bins as a function of its arguments.
RECURSIVE pack_bins(_, _, _)
pack_bins(strat, bins, its) ==
    IF its = <<>> THEN bins
    ELSE pack_bins(strat, PackOrPush(strat, bins, Head(its)), Tail(its))

\* ------------------------------------------------------------- sequences
\* items.sort_unstable_by_key(|item| Reverse(item.size())): descending size.
\* Items of equal size are equal values, so the order of ties is not visible.
RECURSIVE InsertDesc(_, _)
InsertDesc(sorted, item) ==
    IF sorted = <<>> THEN <<item>>
    ELSE IF size(item) > size(Head(sorted)) THEN <<item>> \o sorted
    ELSE <<Head(sorted)>> \o InsertDesc(Tail(sorted), item)

RECURSIVE sort_by_reverse_size(_)
sort_by_reverse_size(its) ==
    IF its = <<>> THEN <<>>
    ELSE InsertDesc(sort_by_reverse_size(Tail(its)), Head(its))

\* Vec::remove(i), 0-based
Remove(s, i) == SubSeq(s, 1, i) \o SubSeq(s, i + 2, Len(s))

\* Vec::pop(): the vector without its last element
Front(s) == SubSeq(s, 1, Len(s) - 1)

Last(s) == s[Len(s)]

\* its.iter().position(|item| item.size() <= avail)
RECURSIVE PositionFrom(_, _, _)
PositionFrom(its, avail, i) ==
    IF i >= Len(its) THEN None
    ELSE IF size(its[i + 1]) <= avail THEN Some(i)
    ELSE PositionFrom(its, avail, i + 1)

position(its, avail) == PositionFrom(its, avail, 0)

\* The sum of the two largest items instead of the two smallest.
SumLastTwo_first(its) ==
    IF Len(its) = 0 THEN 0
    ELSE IF Len(its) = 1 THEN size(its[1])
    ELSE size(its[1]) + size(its[2])

\* small.iter().rev().take(2).map(Item::size).sum()
SumLastTwo(its) ==
    IF Len(its) = 0 THEN 0
    ELSE IF Len(its) = 1 THEN size(its[1])
    ELSE size(its[Len(its)]) + size(its[Len(its) - 1])

\* -------------------------------------------------------------- MFFD tiers
IsLarge(item) == size(item) > capacity \div 2

IsMedium(item) == ~IsLarge(item) /\ size(item) > capacity \div 3

IsSmall(item) == ~IsLarge(item) /\ ~IsMedium(item) /\ size(item) > capacity \div 6

IsTiny(item) == ~IsLarge(item) /\ ~IsMedium(item) /\ ~IsSmall(item)

\* ------------------------------------------------------------------ state
VARIABLES
    call,      \* the function called
    strategy,  \* its strategy
    bins,      \* the bin collection
    items,     \* the items not yet taken from the item source
    pc,        \* the position in the function
    large, medium, small, tiny,  \* the tiers of MFFD
    idx,       \* the cursor of the large pass
    bin_i,     \* the bin a `for bin in bins` loop of MFFD is at (0-based)
    tier,      \* the while loop the top-off pass is in
    input,     \* history: the items argument
    bins0,     \* history: the bins argument
    trace      \* history: one record per item handled

vars == <<call, strategy, bins, items, pc, large, medium, small, tiny, idx, bin_i, tier,
          input, bins0, trace>>

OnlineStrategies == {"FirstFit", "NextFit", "BestFit"}

OfflineStrategies == {"FirstFitDecreasing", "BestFitDecreasing", "ModifiedFirstFitDecreasing"}

\* The online strategy a decreasing strategy packs with.
Inner(strat) == IF strat = "BestFitDecreasing" THEN "BestFit" ELSE "FirstFit"

Sizes == 0 .. Capacity

SeqsUpTo(S, n) == UNION {[1 .. k -> S] : k \in 0 .. n}

IsAscending(s) == \A k \in 1 .. Len(s) - 1 : s[k] <= s[k + 1]

ToItems(s) == [k \in 1 .. Len(s) |-> ItemImpl_new(s[k])]

ToBins(s) == [k \in 1 .. Len(s) |-> [used |-> s[k], packed |-> <<>>]]

\* The arguments of the calls: bins with any used <= capacity, items of any size
\* in [0, capacity].  The online calls take at most MaxItems bins and items
\* together.  Every offline strategy sorts its items before it reads them, so
\* its items are taken in one order per multiset (ascending: the sort has to
\* reverse them); the more bins it is given, the fewer items.
OnlineArgs ==
    UNION {[1 .. nb -> Sizes] \X SeqsUpTo(Sizes, MaxItems - nb) :
               nb \in 0 .. (IF MaxInitBins < MaxItems THEN MaxInitBins ELSE MaxItems)}

AscendingUpTo(n) == {s \in SeqsUpTo(Sizes, n) : IsAscending(s)}

OfflineArgs ==
    UNION {[1 .. nb -> Sizes] \X AscendingUpTo(MaxOfflineItems \div (nb + 1)) :
               nb \in 0 .. MaxInitBins}

Start(c, s, b, i) ==
    /\ call = c
    /\ strategy = s
    /\ bins = ToBins(b)
    /\ items = ToItems(i)
    /\ pc = CASE c \in {"pack_bins", "pack_existing_bins"} -> c
              [] s = "ModifiedFirstFitDecreasing" -> "classify"
              [] OTHER -> "sort"
    /\ large = <<>> /\ medium = <<>> /\ small = <<>> /\ tiny = <<>>
    /\ idx = 0 /\ bin_i = 0 /\ tier = "medium"
    /\ input = ToItems(i)
    /\ bins0 = ToBins(b)
    /\ trace = <<>>

Init ==
    \/ \E c \in {"pack_bins", "pack_existing_bins"}, s \in OnlineStrategies, a \in OnlineArgs :
           Start(c, s, a[1], a[2])
    \/ \E s \in {"FirstFitDecreasing", "BestFitDecreasing"}, a \in OfflineArgs :
           Start("pack_all", s, a[1], a[2])
    \/ \E c \in {"pack_all", "lib::pack_all"}, a \in OfflineArgs :
           Start(c, "ModifiedFirstFitDecreasing", a[1], a[2])

Avail(bs) == [k \in 1 .. Len(bs) |-> available(bs[k])]

\* The record of one item handled: who decided (`by`), what next_idx returned
\* (`result`, None for the passes of MFFD, which do not call it), the bin the
\* item was packed into (`bin`, None when it was not packed).
Rec(by, item, bs, result, bin) ==
    [by |-> by, item |-> item, avail |-> Avail(bs), result |-> result, bin |-> bin]

\* --------------------------------------------------------- online drivers
\* pack_bins: one iteration of `for item in items`.
PackBinsStep ==
    /\ pc = "pack_bins"
    /\ items # <<>>
    /\ LET item == Head(items)
           r == next_idx(strategy, bins, item)
       IN  /\ bins' = PackOrPush(strategy, bins, item)
           /\ trace' = Append(trace, Rec(strategy, item, bins, r,
                                         IF r # None THEN r ELSE Some(Len(bins))))
    /\ items' = Tail(items)
    /\ UNCHANGED <<call, strategy, pc, large, medium, small, tiny, idx, bin_i, tier, input, bins0>>

PackBinsReturn ==
    /\ pc = "pack_bins"
    /\ items = <<>>
    /\ pc' = "done"
    /\ UNCHANGED <<call, strategy, bins, items, large, medium, small, tiny, idx, bin_i, tier,
                   input, bins0, trace>>

\* pack_existing_bins: one iteration of `for item in items`.  The loop takes the
\* item from the iterator before the strategy is asked; on a miss it breaks and
\* the item taken is dropped.
PackExistingStep ==
    /\ pc = "pack_existing_bins"
    /\ items # <<>>
    /\ LET item == Head(items)
           r == next_idx(strategy, bins, item)
       IN  /\ bins' = IF r # None THEN PackAt(bins, r[1], item) ELSE bins
           /\ pc' = IF r # None THEN pc ELSE "done"
           /\ trace' = Append(trace, Rec(strategy, item, bins, r, r))
    /\ items' = Tail(items)
    /\ UNCHANGED <<call, strategy, large, medium, small, tiny, idx, bin_i, tier, input, bins0>>

PackExistingReturn ==
    /\ pc = "pack_existing_bins"
    /\ items = <<>>
    /\ pc' = "done"
    /\ UNCHANGED <<call, strategy, bins, items, large, medium, small, tiny, idx, bin_i, tier,
                   input, bins0, trace>>

\* ------------------------------------------------------------- FFD / BFD
\* items.sort_unstable_by_key(|item| Reverse(item.size()))
DecreasingSort ==
    /\ pc = "sort"
    /\ items' = sort_by_reverse_size(items)
    /\ pc' = "pop"
    /\ UNCHANGED <<call, strategy, bins, large, medium, small, tiny, idx, bin_i, tier,
                   input, bins0, trace>>

\* One iteration of `while let Some(item) = items.pop()`.
DecreasingPop ==
    /\ pc = "pop"
    /\ items # <<>>
    /\ LET item == Last(items)
           strat == Inner(strategy)
           r == next_idx(strat, bins, item)
       IN  /\ bins' = PackOrPush(strat, bins, item)
           /\ trace' = Append(trace, Rec(strat, item, bins, r,
                                         IF r # None THEN r ELSE Some(Len(bins))))
    /\ items' = Front(items)
    /\ UNCHANGED <<call, strategy, pc, large, medium, small, tiny, idx, bin_i, tier, input, bins0>>

DecreasingReturn ==
    /\ pc = "pop"
    /\ items = <<>>
    /\ pc' = "done"
    /\ UNCHANGED <<call, strategy, bins, items, large, medium, small, tiny, idx, bin_i, tier,
                   input, bins0, trace>>

\* The large pass with `<=` for `<`.
LargeFits_le(item, bin) == size(item) <= available(bin)

\* `large_item.size() < bins[idx].available()` of the large pass.
LargeFits(item, bin) == size(item) < available(bin)

\* ------------------------------------------------------------------ MFFD
\* `for item in items.drain(..)`: group the items by size; then
\* large.sort_unstable_by_key(..) and `let mut idx = 0`.
Classify ==
    /\ pc = "classify"
    /\ large' = sort_by_reverse_size(SelectSeq(items, IsLarge))
    /\ medium' = SelectSeq(items, IsMedium)
    /\ small' = SelectSeq(items, IsSmall)
    /\ tiny' = SelectSeq(items, IsTiny)
    /\ items' = <<>>
    /\ idx' = 0
    /\ pc' = "large"
    /\ UNCHANGED <<call, strategy, bins, bin_i, tier, input, bins0, trace>>

\* The large pass of src/src/offline.rs: one iteration of `loop`.
LargePush ==
    /\ pc = "large" /\ call = "pack_all"
    /\ large # <<>>
    /\ idx = Len(bins)
    /\ bins' = PushPack(bins, Head(large))
    /\ trace' = Append(trace, Rec("large", Head(large), bins, None, Some(Len(bins))))
    /\ large' = Tail(large)
    /\ UNCHANGED <<call, strategy, items, pc, medium, small, tiny, idx, bin_i, tier, input, bins0>>

LargePlace ==
    /\ pc = "large" /\ call = "pack_all"
    /\ large # <<>>
    /\ idx # Len(bins)
    /\ LargeFits(Head(large), At(bins, idx))
    /\ bins' = PackAt(bins, idx, Head(large))
    /\ trace' = Append(trace, Rec("large", Head(large), bins, None, Some(idx)))
    /\ large' = Tail(large)
    /\ UNCHANGED <<call, strategy, items, pc, medium, small, tiny, idx, bin_i, tier, input, bins0>>

LargeAdvance ==
    /\ pc = "large" /\ call = "pack_all"
    /\ large # <<>>
    /\ idx # Len(bins)
    /\ ~LargeFits(Head(large), At(bins, idx))
    /\ idx' = idx + 1
    /\ UNCHANGED <<call, strategy, bins, items, pc, large, medium, small, tiny, bin_i, tier,
                   input, bins0, trace>>

\* The large pass of src/src/lib.rs: one iteration of `loop`.  bins[idx] is read
\* before idx is compared with bins.len(): with idx = bins.len() the index is out
\* of bounds and the call panics.
LibLargePanic ==
    /\ pc = "large" /\ call = "lib::pack_all"
    /\ large # <<>>
    /\ idx >= Len(bins)
    /\ pc' = "panic"
    /\ UNCHANGED <<call, strategy, bins, items, large, medium, small, tiny, idx, bin_i, tier,
                   input, bins0, trace>>

LibLargePlace ==
    /\ pc = "large" /\ call = "lib::pack_all"
    /\ large # <<>>
    /\ idx < Len(bins)
    /\ size(Head(large)) < available(At(bins, idx))
    /\ bins' = PackAt(bins, idx, Head(large))
    /\ trace' = Append(trace, Rec("large", Head(large), bins, None, Some(idx)))
    /\ large' = Tail(large)
    /\ UNCHANGED <<call, strategy, items, pc, medium, small, tiny, idx, bin_i, tier, input, bins0>>

LibLargeAdvance ==
    /\ pc = "large" /\ call = "lib::pack_all"
    /\ large # <<>>
    /\ idx < Len(bins)
    /\ ~(size(Head(large)) < available(At(bins, idx)))
    /\ idx + 1 # Len(bins)
    /\ idx' = idx + 1
    /\ UNCHANGED <<call, strategy, bins, items, pc, large, medium, small, tiny, bin_i, tier,
                   input, bins0, trace>>

LibLargeAdvancePush ==
    /\ pc = "large" /\ call = "lib::pack_all"
    /\ large # <<>>
    /\ idx < Len(bins)
    /\ ~(size(Head(large)) < available(At(bins, idx)))
    /\ idx + 1 = Len(bins)
    /\ idx' = idx + 1
    /\ bins' = PushPack(bins, Head(large))
    /\ trace' = Append(trace, Rec("large", Head(large), bins, None, Some(Len(bins))))
    /\ large' = Tail(large)
    /\ UNCHANGED <<call, strategy, items, pc, medium, small, tiny, bin_i, tier, input, bins0>>

\* The end of `for large_item in large`; medium.sort_unstable_by_key(..).
LargeDone ==
    /\ pc = "large"
    /\ large = <<>>
    /\ medium' = sort_by_reverse_size(medium)
    /\ bin_i' = 0
    /\ pc' = "medium"
    /\ UNCHANGED <<call, strategy, bins, items, large, small, tiny, idx, tier, input, bins0, trace>>

\* The medium pass: one iteration of `for bin in bins.iter_mut()`.  The loop
\* breaks when it has packed the last medium item; small is sorted next.
MediumBin ==
    /\ pc = "medium"
    /\ bin_i < Len(bins)
    /\ LET item_idx == position(medium, available(At(bins, bin_i)))
       IN  IF item_idx # None
           THEN /\ bins' = PackAt(bins, bin_i, medium[item_idx[1] + 1])
                /\ medium' = Remove(medium, item_idx[1])
                /\ trace' = Append(trace, Rec("medium", medium[item_idx[1] + 1], bins, None,
                                              Some(bin_i)))
                /\ IF medium' = <<>>
                   THEN /\ small' = sort_by_reverse_size(small)
                        /\ bin_i' = Len(bins)
                        /\ pc' = "small"
                   ELSE /\ bin_i' = bin_i + 1
                        /\ UNCHANGED <<small, pc>>
           ELSE /\ bin_i' = bin_i + 1
                /\ UNCHANGED <<bins, medium, small, pc, trace>>
    /\ UNCHANGED <<call, strategy, items, large, tiny, idx, tier, input, bins0>>

\* The end of the medium loop; small.sort_unstable_by_key(..).  The small pass
\* walks the bins backwards: bin_i is the number of bins still to visit.
MediumDone ==
    /\ pc = "medium"
    /\ bin_i = Len(bins)
    /\ small' = sort_by_reverse_size(small)
    /\ bin_i' = Len(bins)
    /\ pc' = "small"
    /\ UNCHANGED <<call, strategy, bins, items, large, medium, tiny, idx, tier, input, bins0,
                   trace>>

\* tiny.sort_unstable_by_key(..) and the start of the top-off loop.
EnterTopOff ==
    /\ tiny' = sort_by_reverse_size(tiny)
    /\ bin_i' = 0
    /\ tier' = "medium"
    /\ pc' = "topoff"

\* The small pass: one iteration of `for bin in bins.iter_mut().rev()`, at the
\* bin of index bin_i - 1.
SmallBin ==
    /\ pc = "small"
    /\ bin_i > 0
    /\ LET b == bin_i - 1
           avail == available(At(bins, b))
       IN  IF small = <<>>
           THEN /\ EnterTopOff
                /\ UNCHANGED <<bins, small, trace>>
           ELSE IF SumLastTwo(small) > avail
           THEN /\ bin_i' = bin_i - 1
                /\ UNCHANGED <<bins, small, tiny, tier, pc, trace>>
           ELSE LET first == Last(small)
                    rest == Front(small)
                    bins1 == PackAt(bins, b, first)
                    largest_idx == position(rest, available(At(bins1, b)))
                    trace1 == Append(trace, Rec("small", first, bins, None, Some(b)))
                IN  /\ IF largest_idx # None
                       THEN /\ bins' = PackAt(bins1, b, rest[largest_idx[1] + 1])
                            /\ small' = Remove(rest, largest_idx[1])
                            /\ trace' = Append(trace1, Rec("small", rest[largest_idx[1] + 1],
                                                           bins1, None, Some(b)))
                       ELSE /\ bins' = bins1
                            /\ small' = rest
                            /\ trace' = trace1
                    /\ bin_i' = bin_i - 1
                    /\ UNCHANGED <<tiny, tier, pc>>
    /\ UNCHANGED <<call, strategy, items, large, medium, idx, input, bins0>>

SmallDone ==
    /\ pc = "small"
    /\ bin_i = 0
    /\ EnterTopOff
    /\ UNCHANGED <<call, strategy, bins, items, large, medium, small, idx, input, bins0, trace>>

\* The tier the top-off pass is packing from.
TopTier == CASE tier = "medium" -> medium [] tier = "small" -> small [] tier = "tiny" -> tiny

\* The top-off pass: one iteration of the while loop of the current tier.
TopOffPack ==
    /\ pc = "topoff"
    /\ bin_i < Len(bins)
    /\ TopTier # <<>>
    /\ size(Head(TopTier)) <= available(At(bins, bin_i))
    /\ bins' = PackAt(bins, bin_i, Head(TopTier))
    /\ trace' = Append(trace, Rec("topoff", Head(TopTier), bins, None, Some(bin_i)))
    /\ medium' = IF tier = "medium" THEN Tail(medium) ELSE medium
    /\ small' = IF tier = "small" THEN Tail(small) ELSE small
    /\ tiny' = IF tier = "tiny" THEN Tail(tiny) ELSE tiny
    /\ UNCHANGED <<call, strategy, items, pc, large, idx, bin_i, tier, input, bins0>>

\* The while condition of the current tier is false: the next while loop, or
\* after the tiny loop the next bin.
TopOffStop ==
    /\ pc = "topoff"
    /\ bin_i < Len(bins)
    /\ ~(TopTier # <<>> /\ size(Head(TopTier)) <= available(At(bins, bin_i)))
    /\ tier' = CASE tier = "medium" -> "small" [] tier = "small" -> "tiny" [] tier = "tiny" -> "medium"
    /\ bin_i' = IF tier = "tiny" THEN bin_i + 1 ELSE bin_i
    /\ UNCHANGED <<call, strategy, bins, items, pc, large, medium, small, tiny, idx, input, bins0,
                   trace>>

\* The end of the top-off loop: the remainder is collected and handed to
\* FirstFitDecreasing.pack_all.
TopOffDone ==
    /\ pc = "topoff"
    /\ bin_i = Len(bins)
    /\ items' = medium \o small \o tiny
    /\ medium' = <<>> /\ small' = <<>> /\ tiny' = <<>>
    /\ pc' = "sort"
    /\ UNCHANGED <<call, strategy, bins, large, idx, bin_i, tier, input, bins0, trace>>

Next ==
    \/ PackBinsStep
    \/ PackBinsReturn
    \/ PackExistingStep
    \/ PackExistingReturn
    \/ DecreasingSort
    \/ DecreasingPop
    \/ DecreasingReturn
    \/ Classify
    \/ LargePush
    \/ LargePlace
    \/ LargeAdvance
    \/ LibLargePanic
    \/ LibLargePlace
    \/ LibLargeAdvance
    \/ LibLargeAdvancePush
    \/ LargeDone
    \/ MediumBin
    \/ MediumDone
    \/ SmallBin
    \/ SmallDone
    \/ TopOffPack
    \/ TopOffStop
    \/ TopOffDone

Spec == Init /\ [][Next]_vars

\* ------------------------------------------------------ derived quantities
RECURSIVE SumSizes(_)
SumSizes(its) == IF its = <<>> THEN 0 ELSE size(Head(its)) + SumSizes(Tail(its))

RECURSIVE SumUsed(_)
SumUsed(bs) == IF bs = <<>> THEN 0 ELSE Head(bs).used + SumUsed(Tail(bs))

\* The items packed during the call, bin after bin.
RECURSIVE AllPacked(_)
AllPacked(bs) == IF bs = <<>> THEN <<>> ELSE Head(bs).packed \o AllPacked(Tail(bs))

\* The multiset of the elements of a sequence.
BagOf(s) ==
    [x \in {s[k] : k \in 1 .. Len(s)} |-> Cardinality({k \in 1 .. Len(s) : s[k] = x})]

\* The items of the call that are in no bin yet.
Pending == items \o large \o medium \o small \o tiny

GrowthCall ==
    \/ call = "pack_bins" /\ strategy \in OnlineStrategies
    \/ call = "pack_all" /\ strategy \in OfflineStrategies

IsMFFD == call = "pack_all" /\ strategy = "ModifiedFirstFitDecreasing"

NumLarge(its) == Cardinality({k \in 1 .. Len(its) : size(its[k]) > Capacity \div 2})

\* The used size bin k (1-based) had at the call.
Used0(k) == IF k <= Len(bins0) THEN bins0[k].used ELSE 0

\* ---------------------------------------------------------------- claims

\* C1: in every growth-mode call, started from bins with used <= capacity and
\* items of size in [0, capacity], every bin's used size (the used size it had
\* plus the sizes packed into it) is <= capacity after every step and at return.
C1_CapacityInvariant ==
    GrowthCall =>
        \A k \in 1 .. Len(bins) :
            /\ bins[k].used <= Capacity
            /\ Used0(k) + SumSizes(bins[k].packed) <= Capacity
            /\ available(bins[k]) >= 0

\* A call of MFFD that was given a bin has returned with a bin filled to the brim
\* by two or more items, and with a bin of its own.
C1_Witness ==
    /\ IsMFFD /\ pc = "done" /\ bins0 # <<>>
    /\ Len(bins) > Len(bins0)
    /\ \E k \in 1 .. Len(bins) : bins[k].used = Capacity /\ Len(bins[k].packed) >= 2

\* C2: in every growth-mode call every input item is, at every step, either
\* still pending or in exactly one bin (the multiset of packed and pending items
\* is the input's), every bin's used size grew by the sizes packed into it, the
\* tiers of MFFD hold the items of their size range, and at return nothing is
\* pending: the items vector is empty and the total used size grew by the sum
\* of the input sizes.
C2_Completeness ==
    GrowthCall =>
        /\ BagOf(AllPacked(bins) \o Pending) = BagOf(input)
        /\ Len(AllPacked(bins)) + Len(Pending) = Len(input)
        /\ \A k \in 1 .. Len(bins) : bins[k].used = Used0(k) + SumSizes(bins[k].packed)
        /\ \A k \in 1 .. Len(large) : size(large[k]) > Capacity \div 2
        /\ \A k \in 1 .. Len(medium) :
               size(medium[k]) > Capacity \div 3 /\ size(medium[k]) <= Capacity \div 2
        /\ \A k \in 1 .. Len(small) :
               size(small[k]) > Capacity \div 6 /\ size(small[k]) <= Capacity \div 3
        /\ \A k \in 1 .. Len(tiny) : size(tiny[k]) <= Capacity \div 6
        /\ pc = "done" =>
               /\ items = <<>>
               /\ Pending = <<>>
               /\ BagOf(AllPacked(bins)) = BagOf(input)
               /\ SumUsed(bins) = SumUsed(bins0) + SumSizes(input)

\* MFFD has returned from a call whose items had all four tiers and went into
\* more than one bin.
C2_Witness ==
    /\ IsMFFD /\ pc = "done"
    /\ \E a, b, c, d \in 1 .. Len(input) :
           IsLarge(input[a]) /\ IsMedium(input[b]) /\ IsSmall(input[c]) /\ IsTiny(input[d])
    /\ Len(bins) >= 2
    /\ Len(AllPacked(bins)) = Len(input)

\* C3 (as claimed): in one call of FirstFitDecreasing or BestFitDecreasing every
\* item placed is at least as large as every item placed after it.
C3_LargestFirst ==
    (call = "pack_all" /\ strategy \in {"FirstFitDecreasing", "BestFitDecreasing"}) =>
        \A j, k \in 1 .. Len(trace) : j < k => size(trace[j].item) >= size(trace[k].item)

Orderings(its) ==
    {[k \in 1 .. Len(its) |-> its[f[k]]] : f \in Permutations(1 .. Len(its))}

\* C4 (as claimed): started from no bins, FirstFitDecreasing ends with no more
\* bins than pack_bins(FirstFit) run on any ordering of the same items.
C4_FFDNoWorseThanFirstFit ==
    (call = "pack_all" /\ strategy = "FirstFitDecreasing" /\ pc = "done" /\ bins0 = <<>>) =>
        \A p \in Orderings(input) : Len(bins) <= Len(pack_bins("FirstFit", <<>>, p))

\* The number of items pack_existing_bins has packed.
NumPacked == Len(AllPacked(bins))

\* C5 (as claimed): pack_existing_bins never adds a bin, packs exactly the items
\* before the first one the strategy finds no bin for, and leaves every other
\* item, that one included, in the item source; so the source is empty at
\* return only if every item was packed.
C5_PartialCompletion ==
    call = "pack_existing_bins" =>
        /\ Len(bins) = Len(bins0)
        /\ \A k \in 1 .. Len(trace) : k < Len(trace) => trace[k].result # None
        /\ pc = "done" =>
               /\ items = SubSeq(input, NumPacked + 1, Len(input))
               /\ items = <<>> => NumPacked = Len(input)

\* The lowest 0-based index of a bin the item fits, as an Option.
LowestFit(avail, sz) ==
    IF \E k \in 1 .. Len(avail) : sz <= avail[k]
    THEN Some((CHOOSE k \in 1 .. Len(avail) :
                  sz <= avail[k] /\ \A j \in 1 .. k - 1 : sz > avail[j]) - 1)
    ELSE None

\* C6: every answer of FirstFit::next_idx is the lowest index of a bin with
\* available >= item.size, and None exactly when there is no such bin.
C6_FirstFitLowestIndex ==
    \A k \in 1 .. Len(trace) :
        trace[k].by = "FirstFit" =>
            /\ trace[k].result = LowestFit(trace[k].avail, size(trace[k].item))
            /\ trace[k].result = None <=>
                   \A j \in 1 .. Len(trace[k].avail) : trace[k].avail[j] < size(trace[k].item)

\* FirstFit answered 0 although the next bin fits the item more tightly, and it
\* answered 1 when bin 0 did not fit, and None when no bin did.
C6_Witness ==
    /\ \E k \in 1 .. Len(trace) :
           /\ trace[k].by = "FirstFit" /\ trace[k].result = Some(0)
           /\ Len(trace[k].avail) >= 2
           /\ size(trace[k].item) <= trace[k].avail[2]
           /\ trace[k].avail[2] < trace[k].avail[1]
    /\ \E k \in 1 .. Len(trace) :
           /\ trace[k].by = "FirstFit" /\ trace[k].result = None /\ trace[k].avail # <<>>

\* C7: every answer of BestFit::next_idx is a bin with the smallest available
\* among the bins that fit the item, the lowest index among those tied on it,
\* and None exactly when no bin fits.
C7_BestFitTightestLowest ==
    \A k \in 1 .. Len(trace) :
        trace[k].by = "BestFit" =>
            LET avail == trace[k].avail
                sz == size(trace[k].item)
                r == trace[k].result
                Fits == {j \in 1 .. Len(avail) : sz <= avail[j]}
            IN  /\ r = None <=> Fits = {}
                /\ r # None =>
                       /\ r[1] + 1 \in Fits
                       /\ \A j \in Fits : avail[r[1] + 1] <= avail[j]
                       /\ \A j \in Fits : avail[j] = avail[r[1] + 1] => r[1] + 1 <= j

\* BestFit answered 0 of two bins that both fit the item and are tied on their
\* available.
C7_Witness ==
    \E k \in 1 .. Len(trace) :
        /\ trace[k].by = "BestFit" /\ trace[k].result = Some(0)
        /\ Len(trace[k].avail) >= 2
        /\ trace[k].avail[1] = trace[k].avail[2]
        /\ size(trace[k].item) > 0

\* One step of pack_bins(NextFit): the answer of next_idx looks at the last bin
\* only, the item goes into the last bin or into a new one, and no other bin
\* changes.
C8_Step ==
    (call = "pack_bins" /\ strategy = "NextFit" /\ pc = "pack_bins" /\ trace' # trace) =>
        LET n == Len(bins)
            item == Head(items)
            r == trace'[Len(trace')].result
            fitsLast == n > 0 /\ size(item) <= available(bins[n])
        IN  /\ r = IF fitsLast THEN Some(n - 1) ELSE None
            /\ \A k \in 1 .. n - 1 : bins'[k] = bins[k]
            /\ IF fitsLast
               THEN /\ Len(bins') = n
                    /\ bins'[n].used = bins[n].used + size(item)
                    /\ bins'[n].packed = Append(bins[n].packed, item)
               ELSE /\ Len(bins') = n + 1
                    /\ n > 0 => bins'[n] = bins[n]
                    /\ bins'[n + 1] = [used |-> size(item), packed |-> <<item>>]

\* C8: NextFit::next_idx answers the last bin's index if the item fits it and
\* None otherwise (None for no bins); in pack_bins(NextFit) every item goes into
\* the current last bin or a newly appended one, and a bin that is not the last
\* one is never modified again.
C8_NextFitLocality == [][C8_Step]_vars

\* pack_bins(NextFit) has opened a third bin for an item that the first bin had
\* room for, and the first bin is as it was.
C8_Witness ==
    /\ call = "pack_bins" /\ strategy = "NextFit"
    /\ \E k \in 1 .. Len(trace) :
           /\ trace[k].result = None
           /\ Len(trace[k].avail) >= 2
           /\ size(trace[k].item) <= trace[k].avail[1]
           /\ size(trace[k].item) > 0
           /\ available(bins[1]) = trace[k].avail[1]
           /\ Len(bins) = Len(trace[k].avail) + 1

\* C9 (as claimed): in every MFFD pack_all (src/src/offline.rs and
\* src/src/lib.rs), when the cursor of the large pass has no bin to look at (no
\* bins at the call, or the cursor past all bins) and a large item remains, the
\* step appends a bin and packs the item there; no index at or beyond the
\* length of the bins is accessed.
C9_LargePlacementNeverFails ==
    [][(strategy = "ModifiedFirstFitDecreasing" /\ pc = "large" /\ large # <<>>
            /\ idx >= Len(bins)) =>
           /\ pc' # "panic"
           /\ bins' = Append(bins, [used |-> size(Head(large)), packed |-> <<Head(large)>>])
           /\ large' = Tail(large)]_vars

\* One step of the MFFD of src/src/offline.rs, seen from the large pass.
C10_Step ==
    IsMFFD =>
        /\ idx' >= idx
        /\ (pc = "large" /\ idx' = idx + 1) =>
               available(bins[idx + 1]) <= size(Head(large))
        /\ (pc = "large" /\ bins' # bins) =>
               \/ /\ idx = Len(bins)
                  /\ bins' = Append(bins, [used |-> size(Head(large)), packed |-> <<Head(large)>>])
               \/ /\ idx < Len(bins)
                  /\ available(bins[idx + 1]) > size(Head(large))
                  /\ bins' = [bins EXCEPT ![idx + 1] =
                                 [used |-> @.used + size(Head(large)),
                                  packed |-> Append(@.packed, Head(large))]]
        /\ \A k \in 1 .. Len(bins') : NumLarge(bins'[k].packed) <= 1
        /\ (pc = "large" /\ pc' = "medium" /\ bins0 = <<>>) =>
               /\ Len(bins') = NumLarge(input)
               /\ \A k \in 1 .. Len(bins') :
                      Len(bins'[k].packed) = 1 /\ size(bins'[k].packed[1]) > Capacity \div 2

\* C10: the large pass of MFFD puts at most one large item of the call into any
\* bin; its cursor only moves forward, past bins whose available does not
\* strictly exceed the item's size, and it places an item at the cursor's bin
\* only when that bin's available strictly exceeds the size; started from no
\* bins, right after the large pass there are as many bins as large items and
\* each bin holds exactly one of them.
C10_OneLargePerBin == [][C10_Step]_vars

\* Right after the large pass of a call started from no bins, with two large
\* items placed.
C10_Witness ==
    /\ IsMFFD /\ pc = "medium" /\ bin_i = 0 /\ bins0 = <<>>
    /\ Len(bins) >= 2
    /\ Len(trace) = Len(bins)
    /\ \A k \in 1 .. Len(trace) : trace[k].by = "large"

\* One step of the top-off pass at a bin, as claimed: a packed item is the
\* largest item of its tier that fits the bin, and the pass leaves a tier only
\* when no item of the tier fits the bin.
C11_Step ==
    (strategy = "ModifiedFirstFitDecreasing" /\ pc = "topoff" /\ bin_i < Len(bins)) =>
        LET avail == available(bins[bin_i + 1])
            Fitting == {k \in 1 .. Len(TopTier) : size(TopTier[k]) <= avail}
        IN  /\ bins' # bins =>
                   LET item == bins'[bin_i + 1].packed[Len(bins'[bin_i + 1].packed)]
                   IN  /\ size(item) <= avail
                       /\ \A k \in Fitting : size(TopTier[k]) <= size(item)
            /\ (tier' # tier \/ bin_i' # bin_i) => Fitting = {}

\* C11 (as claimed): when the top-off pass stops packing medium (small, tiny)
\* items into a bin and moves to the next tier or the next bin, no remaining
\* item of that tier has size <= the bin's available; and each item it packed
\* was the largest remaining item of its tier that fit.
C11_TopOffExhaustsTier == [][C11_Step]_vars

\* The smallest size among the items.
MinSize(its) ==
    CHOOSE m \in {size(its[k]) : k \in 1 .. Len(its)} : \A k \in 1 .. Len(its) : m <= size(its[k])

\* The sum of the two smallest items, or the size of the single one.
TwoSmallest(its) ==
    IF Len(its) = 1 THEN size(its[1])
    ELSE CHOOSE t \in {size(its[j]) + size(its[k]) : j, k \in 1 .. Len(its)} :
             /\ \E j, k \in 1 .. Len(its) : j # k /\ t = size(its[j]) + size(its[k])
             /\ \A j, k \in 1 .. Len(its) : j # k => t <= size(its[j]) + size(its[k])

\* The sizes of the items left when one smallest item is taken away that fit `room`.
FittingRest(its, room) ==
    LET one == CHOOSE k \in 1 .. Len(its) : size(its[k]) = MinSize(its)
    IN  {size(its[k]) : k \in {j \in 1 .. Len(its) : j # one /\ size(its[j]) <= room}}

\* The number of small-pass records of the bin with 0-based index b.
SmallInto(tr, b) == Cardinality({k \in 1 .. Len(tr) : tr[k].by = "small" /\ tr[k].bin = Some(b)})

\* One step of the small pass of MFFD.
C12_Step ==
    /\ (strategy = "ModifiedFirstFitDecreasing" /\ pc # "small" /\ pc' = "small") =>
           bin_i' = Len(bins')
    /\ (strategy = "ModifiedFirstFitDecreasing" /\ pc = "small" /\ bin_i > 0) =>
           IF small = <<>>
           THEN pc' = "topoff" /\ bins' = bins
           ELSE LET avail == available(bins[bin_i])
                    got == SubSeq(bins'[bin_i].packed, Len(bins[bin_i].packed) + 1,
                                  Len(bins'[bin_i].packed))
                IN  /\ pc' = "small" /\ bin_i' = bin_i - 1
                    /\ Len(bins') = Len(bins)
                    /\ \A k \in 1 .. Len(bins) : k # bin_i => bins'[k] = bins[k]
                    /\ BagOf(got \o small') = BagOf(small)
                    /\ IF TwoSmallest(small) > avail
                       THEN got = <<>>
                       ELSE /\ Len(got) >= 1
                            /\ size(got[1]) = MinSize(small)
                            /\ LET fit == FittingRest(small, avail - MinSize(small))
                               IN  IF fit = {}
                                   THEN Len(got) = 1
                                   ELSE /\ Len(got) = 2
                                        /\ size(got[2]) \in fit
                                        /\ \A sz \in fit : sz <= size(got[2])
                    /\ \A b \in 0 .. Len(bins) - 1 : SmallInto(trace', b) <= 2

\* C12: the small pass of MFFD visits the bins in reverse index order while
\* small items remain; a visited bin receives no small item if the sum of the
\* two smallest remaining small items (or the single one) exceeds its
\* available; otherwise it receives the smallest remaining small item and
\* then, if a remaining small item fits what is left, the largest such item;
\* so no bin receives more than two small items in the pass.
C12_SmallPass == [][C12_Step]_vars

\* The small pass has given a bin the smallest small item and then the largest
\* one that still fitted, which is smaller than the largest one left.
C12_Witness ==
    /\ IsMFFD /\ pc = "small" /\ small # <<>>
    /\ Len(trace) >= 2
    /\ trace[Len(trace)].by = "small" /\ trace[Len(trace) - 1].by = "small"
    /\ trace[Len(trace)].bin = trace[Len(trace) - 1].bin
    /\ size(small[1]) > size(trace[Len(trace)].item)

\* C13: started from no bins, after every step of pack_bins(FirstFit),
\* pack_bins(BestFit), FirstFitDecreasing::pack_all and
\* BestFitDecreasing::pack_all any two distinct bins have used sizes that sum
\* to more than the capacity: a bin is opened only when no bin fits the item.
C13_NoTwoBinsMergeable ==
    (/\ bins0 = <<>>
     /\ \/ call = "pack_bins" /\ strategy \in {"FirstFit", "BestFit"}
        \/ call = "pack_all" /\ strategy \in {"FirstFitDecreasing", "BestFitDecreasing"}) =>
        \A j, k \in 1 .. Len(bins) : j # k => bins[j].used + bins[k].used > Capacity

\* FirstFitDecreasing, started from no bins, has returned with three bins, one
\* of them holding two items.
C13_Witness ==
    /\ call = "pack_all" /\ strategy = "FirstFitDecreasing" /\ bins0 = <<>> /\ pc = "done"
    /\ Len(bins) >= 3
    /\ \E k \in 1 .. Len(bins) : Len(bins[k].packed) >= 2

====
